---- MODULE Spec2Model ----
(***************************************************************************)
(* A model of src/main.py (PPTScanner): the pipeline                       *)
(*   configure_ai -> extract_data_from_pptx -> consolidation               *)
(*                -> analyze_text_with_gemini -> printed report            *)
(* run by main() inside one try block with two except clauses.             *)
(*                                                                         *)
(* Text is modelled as a sequence of one-character strings, so that        *)
(* str.strip, str.join, filter(None, ...) and the f-strings are computed   *)
(* character by character as Python computes them.                         *)
(*                                                                         *)
(* Only the lines main() prints to report the outcome of the run are       *)
(* modelled in `out` (main.py:131-135, 138, 140); the "[+]" and "    -"    *)
(* progress lines carry no state and are left out.                         *)
(***************************************************************************)
EXTENDS Integers, Sequences, FiniteSets, TLC

\* ------------------------------------------------------------------------
\* Bounds of the model
\* ------------------------------------------------------------------------
MaxSlides == 2
MaxShapes == 2
MaxRichShapes == 2

\* ------------------------------------------------------------------------
\* Text helpers (Python str operations)
\* ------------------------------------------------------------------------
NL == <<"\n">>

\* The characters str.strip() removes.
Whitespace == {" ", "\t", "\n", "\r", "\f"}

RECURSIVE lstrip(_)
lstrip(s) ==
    IF s # <<>> /\ Head(s) \in Whitespace THEN lstrip(Tail(s)) ELSE s

RECURSIVE rstrip(_)
rstrip(s) ==
    IF s # <<>> /\ s[Len(s)] \in Whitespace
    THEN rstrip(SubSeq(s, 1, Len(s) - 1))
    ELSE s

strip_identity(s) == s

\* str.strip(): main.py:28
strip(s) == rstrip(lstrip(s))

\* sep.join(parts)
RECURSIVE join(_, _)
join(sep, parts) ==
    IF parts = <<>> THEN <<>>
    ELSE IF Len(parts) = 1 THEN parts[1]
    ELSE parts[1] \o sep \o join(sep, Tail(parts))

\* filter(None, parts): keeps the truthy (non-empty) strings, in order.
filter_none(parts) == SelectSeq(parts, LAMBDA t : t # <<>>)

Digits == <<"0", "1", "2", "3", "4", "5", "6", "7", "8", "9">>

\* str(n) for n >= 0, as the f-string formats the slide number.
RECURSIVE str(_)
str(n) ==
    IF n < 10 THEN <<Digits[n + 1]>>
    ELSE str(n \div 10) \o <<Digits[(n % 10) + 1]>>

\* ------------------------------------------------------------------------
\* String literals of the source
\* ------------------------------------------------------------------------
\* "GEMINI_API_KEY not found. Please set it in your .env file."
KeyNotFoundMsg ==
    <<"G", "E", "M", "I", "N", "I", "_", "A", "P", "I", "_", "K", "E", "Y",
      " ", "n", "o", "t", " ", "f", "o", "u", "n", "d", ".", " ", "P", "l",
      "e", "a", "s", "e", " ", "s", "e", "t", " ", "i", "t", " ", "i", "n",
      " ", "y", "o", "u", "r", " ", ".", "e", "n", "v", " ", "f", "i", "l",
      "e", ".">>

\* f"The file '{pptx_path}' was not found."
FileNotFoundMsg(path) ==
    <<"T", "h", "e", " ", "f", "i", "l", "e", " ", "'">> \o path \o
    <<"'", " ", "w", "a", "s", " ", "n", "o", "t", " ", "f", "o", "u", "n",
      "d", ".">>

\* "[OCR Text from Image]:"
OcrLabel ==
    <<"[", "O", "C", "R", " ", "T", "e", "x", "t", " ", "f", "r", "o", "m",
      " ", "I", "m", "a", "g", "e", "]", ":">>

\* f"[OCR Text from Image]:\n{ocr_text}"
OcrFragment(ocr_text) == OcrLabel \o NL \o ocr_text

\* f"--- Slide {num} ---\n{text}"
Block(num, text) ==
    <<"-", "-", "-", " ", "S", "l", "i", "d", "e", " ">> \o str(num) \o
    <<" ", "-", "-", "-">> \o NL \o text

BlockSep_single == <<"\n">>

\* "\n\n", the separator of the consolidation join
BlockSep == <<"\n", "\n">>

\* "An error occurred while communicating with the AI model: "
AiErrorPrefix ==
    <<"A", "n", " ", "e", "r", "r", "o", "r", " ", "o", "c", "c", "u", "r",
      "r", "e", "d", " ", "w", "h", "i", "l", "e", " ", "c", "o", "m", "m",
      "u", "n", "i", "c", "a", "t", "i", "n", "g", " ", "w", "i", "t", "h",
      " ", "t", "h", "e", " ", "A", "I", " ", "m", "o", "d", "e", "l", ":",
      " ">>

\* "[!] Error: "
ErrorPrefix == <<"[", "!", "]", " ", "E", "r", "r", "o", "r", ":", " ">>

\* "[!] An unexpected error occurred: "
UnexpectedPrefix ==
    <<"[", "!", "]", " ", "A", "n", " ", "u", "n", "e", "x", "p", "e", "c",
      "t", "e", "d", " ", "e", "r", "r", "o", "r", " ", "o", "c", "c", "u",
      "r", "r", "e", "d", ":", " ">>

\* "========================================"
BannerRule == [k \in 1..40 |-> "="]

\* The four print() calls that precede the report text: main.py:131-134
BannerLines ==
    << <<"[", "+", "]", " ", "A", "n", "a", "l", "y", "s", "i", "s", " ",
         "C", "o", "m", "p", "l", "e", "t", "e", ".", "\n">>,
       BannerRule,
       <<" ", " ", " ", " ", " ", " ", "A", "I", " ", "I", "n", "c", "o",
         "n", "s", "i", "s", "t", "e", "n", "c", "y", " ", "R", "e", "p",
         "o", "r", "t">>,
       BannerRule >>

\* ------------------------------------------------------------------------
\* Exceptions
\* ------------------------------------------------------------------------
Exc(type, msg) == [type |-> type, msg |-> msg]

NoExc == Exc("None", <<>>)

\* ------------------------------------------------------------------------
\* Inputs: images, shapes, slides, decks, the file at pptx_path
\* ------------------------------------------------------------------------
\* The byte payload of an embedded image.  `decodes` is whether
\* Image.open accepts the bytes, `recognises` whether
\* pytesseract.image_to_string returns, `text` what it returns.
Blob(decodes, recognises, text) ==
    [decodes |-> decodes, recognises |-> recognises, text |-> text]

NoBlob == Blob(FALSE, FALSE, <<>>)

\* A shape as the document parser exposes it: three capabilities that are
\* tested independently (has_text_frame, has_table, hasattr 'image').
Shape(has_text_frame, text, has_table, table, has_image, blob) ==
    [has_text_frame |-> has_text_frame, text |-> text,
     has_table |-> has_table, table |-> table,
     has_image |-> has_image, blob |-> blob]

TextShape(t) == Shape(TRUE, t, FALSE, <<>>, FALSE, NoBlob)
TableShape(tbl) == Shape(FALSE, <<>>, TRUE, tbl, FALSE, NoBlob)
ImageShape(b) == Shape(FALSE, <<>>, FALSE, <<>>, TRUE, b)

SeqsUpTo(S, n) == UNION {[1..k -> S] : k \in 0..n}

\* Shapes of the decks of the whole-run specification.
ShapesSmall == {TextShape(<<"A">>), TextShape(<<"B">>), TextShape(<<>>)}

SlidesSmall == SeqsUpTo(ShapesSmall, MaxShapes)

DecksSmall == SeqsUpTo(SlidesSmall, MaxSlides)

\* Images: undecodable bytes, a recognition failure, and recognised text
\* that is empty, whitespace only, bare, or padded with whitespace.
BlobsRich ==
    {Blob(FALSE, FALSE, <<>>),
     Blob(TRUE, FALSE, <<>>),
     Blob(TRUE, TRUE, <<>>),
     Blob(TRUE, TRUE, <<" ", "\n">>),
     Blob(TRUE, TRUE, <<"A", "B", "C">>),
     Blob(TRUE, TRUE, <<" ", "A", "B", "C", "\n">>)}

\* Tables: no rows, a single empty cell, 2x2 with an empty cell.
TablesRich ==
    {<<>>,
     << <<<<>>>> >>,
     << <<<<"a">>, <<"b">>>>, <<<<"c">>, <<>>>> >>}

\* Shapes of the decks of the shape-level specification: every single
\* capability, and shapes that combine capabilities.
ShapesRich ==
    {TextShape(<<>>), TextShape(<<"T">>)}
    \cup {TableShape(t) : t \in TablesRich}
    \cup {ImageShape(b) : b \in BlobsRich}
    \cup {Shape(TRUE, <<"T">>, FALSE, <<>>, TRUE, b) :
             b \in {Blob(FALSE, FALSE, <<>>), Blob(TRUE, TRUE, <<"A", "B", "C">>)}}
    \cup {Shape(TRUE, <<"T">>, TRUE, << <<<<"a">>, <<"b">>>>, <<<<"c">>, <<>>>> >>,
                 TRUE, Blob(TRUE, TRUE, <<"A", "B", "C">>))}

SlidesRich == SeqsUpTo(ShapesRich, MaxRichShapes)

\* One rich slide, alone or followed by a plain text slide.
DecksRich ==
    {<<>>} \cup {<<s>> : s \in SlidesRich}
           \cup {<<s, <<TextShape(<<"Z">>)>> >> : s \in SlidesRich}

\* The file at pptx_path: absent, present but not a readable deck (with
\* the exception class the parser raises), or a deck.
File(kind, exc, slides) == [kind |-> kind, exc |-> exc, slides |-> slides]

MissingFile == File("missing", NoExc, <<>>)

\* What Presentation() raises for a present file it cannot read: a
\* PackageNotFoundError for a file that is no zip package, a ValueError
\* for a package whose main part is not a presentation.
OpenFailures ==
    {Exc("PackageNotFoundError",
         <<"P", "a", "c", "k", "a", "g", "e", " ", "n", "o", "t", " ",
           "f", "o", "u", "n", "d">>),
     Exc("ValueError",
         <<"n", "o", "t", " ", "a", " ", "P", "o", "w", "e", "r", "P", "o",
           "i", "n", "t", " ", "f", "i", "l", "e">>)}

Files(decks) ==
    {MissingFile}
    \cup {File("corrupt", e, <<>>) : e \in OpenFailures}
    \cup {File("deck", NoExc, d) : d \in decks}

\* os.getenv("GEMINI_API_KEY"): None when unset, else the value.
EnvValue(set, value) == [set |-> set, value |-> value]

EnvValues ==
    {EnvValue(FALSE, <<>>), EnvValue(TRUE, <<>>), EnvValue(TRUE, <<"k">>)}

\* What model.generate_content / response.text does: returns text or
\* raises.
ServiceOutcome(exc, text) == [exc |-> exc, text |-> text]

ServiceOutcomes ==
    {ServiceOutcome(NoExc,
        <<"N", "o", " ", "i", "n", "c", "o", "n", "s", "i", "s", "t", "e",
          "n", "c", "i", "e", "s", ".">>),
     ServiceOutcome(Exc("PermissionDenied", <<"4", "0", "3">>), <<>>),
     ServiceOutcome(Exc("ValueError", <<"b", "l", "o", "c", "k", "e", "d">>), <<>>)}

\* args.pptx_file
pptx_path == <<"d", ".", "p", "p", "t", "x">>

\* ------------------------------------------------------------------------
\* The functions of main.py
\* ------------------------------------------------------------------------
KeyMissing_never(key) == FALSE

\* `not GEMINI_API_KEY`: None and the empty string are both falsy.
KeyMissing(key) == ~key.set \/ key.value = <<>>

\* configure_ai(): the exception it raises, NoExc when it returns.
configure_ai(key) ==
    IF KeyMissing(key) THEN Exc("ValueError", KeyNotFoundMsg) ELSE NoExc

exists_always(f) == TRUE

\* os.path.exists(pptx_path)
exists(f) == f.kind # "missing"

Presentation_lenient(f) == [exc |-> NoExc, slides |-> f.slides]

\* Presentation(pptx_path): the slides of a deck, or the parser's exception.
Presentation(f) ==
    IF f.kind = "deck" THEN [exc |-> NoExc, slides |-> f.slides]
    ELSE IF f.kind = "corrupt" THEN [exc |-> f.exc, slides |-> <<>>]
    ELSE [exc |-> Exc("PackageNotFoundError", pptx_path), slides |-> <<>>]

extract_text_from_image_unguarded(blob) ==
    IF ~blob.decodes THEN [exc |-> Exc("UnidentifiedImageError", <<>>), ret |-> <<>>]
    ELSE IF ~blob.recognises THEN [exc |-> Exc("TesseractError", <<>>), ret |-> <<>>]
    ELSE [exc |-> NoExc, ret |-> strip(blob.text)]

\* extract_text_from_image(image_bytes): `exc` is what escapes the
\* function, `ret` what it returns.
extract_text_from_image(blob) ==
    IF ~blob.decodes THEN [exc |-> NoExc, ret |-> <<>>]
    ELSE IF ~blob.recognises THEN [exc |-> NoExc, ret |-> <<>>]
    ELSE [exc |-> NoExc, ret |-> strip(blob.text)]

RECURSIVE row_texts(_)
row_texts(cells) ==
    IF cells = <<>> THEN <<>>
    ELSE <<Head(cells)>> \o row_texts(Tail(cells))

RECURSIVE table_texts_by_column(_, _)
table_texts_by_column(rows, c) ==
    IF rows = <<>> \/ c > Len(rows[1]) THEN <<>>
    ELSE [r \in 1..Len(rows) |-> rows[r][c]] \o table_texts_by_column(rows, c + 1)

table_texts_column_major(rows) == table_texts_by_column(rows, 1)

\* for row in shape.table.rows: for cell in row.cells: append(cell text)
RECURSIVE table_texts(_)
table_texts(rows) ==
    IF rows = <<>> THEN <<>>
    ELSE row_texts(Head(rows)) \o table_texts(Tail(rows))

\* The image branch of the shape loop: what it appends to slide_texts.
image_texts(shape) ==
    LET ocr_text == extract_text_from_image(shape.blob).ret
    IN  IF ocr_text # <<>> THEN <<OcrFragment(ocr_text)>> ELSE <<>>

\* One iteration of the shape loop: what it appends to slide_texts.
shape_texts(shape) ==
    (IF shape.has_text_frame THEN <<shape.text>> ELSE <<>>)
    \o (IF shape.has_table THEN table_texts(shape.table) ELSE <<>>)
    \o (IF shape.has_image THEN image_texts(shape) ELSE <<>>)

\* The shape loop of one slide: slide_texts after the loop, starting from
\* the list `acc`.
RECURSIVE slide_texts(_, _)
slide_texts(shapes, acc) ==
    IF shapes = <<>> THEN acc
    ELSE slide_texts(Tail(shapes), acc \o shape_texts(Head(shapes)))

\* The first exception that escapes extract_text_from_image in the shape
\* loop of a slide (nothing in extract_data_from_pptx catches it).
RECURSIVE slide_exc(_)
slide_exc(shapes) ==
    IF shapes = <<>> THEN NoExc
    ELSE IF Head(shapes).has_image
            /\ extract_text_from_image(Head(shapes).blob).exc # NoExc
         THEN extract_text_from_image(Head(shapes).blob).exc
         ELSE slide_exc(Tail(shapes))

\* "\n".join(filter(None, slide_texts))
slide_text(shapes) == join(NL, filter_none(slide_texts(shapes, <<>>)))

slide_number_zero_based(idx) == idx

\* slide_number = i + 1
slide_number(idx) == idx + 1

\* A dict as the sequence of its (key, value) items in insertion order.
dict_keys(d) == {d[k][1] : k \in 1..Len(d)}

dict_get(d, key) == d[CHOOSE k \in 1..Len(d) : d[k][1] = key][2]

\* d[key] = value: replaces the value in place, or appends a new item.
dict_set(d, key, value) ==
    IF key \in dict_keys(d)
    THEN [k \in 1..Len(d) |-> IF d[k][1] = key THEN <<key, value>> ELSE d[k]]
    ELSE Append(d, <<key, value>>)

\* "\n\n".join(f"--- Slide {num} ---\n{text}" for num, text in items())
consolidate(d) ==
    join(BlockSep, [k \in 1..Len(d) |-> Block(d[k][1], d[k][2])])

analyze_text_with_gemini_unguarded(outcome) ==
    [exc |-> outcome.exc, ret |-> outcome.text]

\* analyze_text_with_gemini: `exc` is what escapes, `ret` what it returns.
analyze_text_with_gemini(outcome) ==
    IF outcome.exc = NoExc
    THEN [exc |-> NoExc, ret |-> outcome.text]
    ELSE [exc |-> NoExc, ret |-> AiErrorPrefix \o outcome.exc.msg]

\* The except clauses of main(): the line printed for exception e.
handler(e) ==
    IF e.type \in {"FileNotFoundError", "ValueError"}
    THEN ErrorPrefix \o e.msg
    ELSE UnexpectedPrefix \o e.msg

\* ------------------------------------------------------------------------
\* State
\* ------------------------------------------------------------------------
VARIABLES
    GEMINI_API_KEY,     \* the module-level credential value
    file,               \* the file at args.pptx_file
    pc,                 \* position of main()
    prs,                \* the slides of the opened presentation
    i,                  \* number of slides the slide loop has finished
    slide_data,         \* the dict built by extract_data_from_pptx
    consolidated_text,  \* main's consolidated_text
    ai_report,          \* main's ai_report
    out,                \* the outcome lines printed by main()
    raised,             \* the exception caught by main's except clauses
    fsOps,              \* operations performed on the input path, in order
    requests,           \* the texts submitted to the inference service
    response            \* what the inference service answered

vars ==
    <<GEMINI_API_KEY, file, pc, prs, i, slide_data, consolidated_text,
      ai_report, out, raised, fsOps, requests, response>>

InitWith(decks) ==
    /\ GEMINI_API_KEY \in EnvValues
    /\ file \in Files(decks)
    /\ pc = "configure"
    /\ prs = <<>>
    /\ i = 0
    /\ slide_data = <<>>
    /\ consolidated_text = <<>>
    /\ ai_report = <<>>
    /\ out = <<>>
    /\ raised = NoExc
    /\ fsOps = <<>>
    /\ requests = <<>>
    /\ response = ServiceOutcome(NoExc, <<>>)

Init == InitWith(DecksSmall)

InitShapes == InitWith(DecksRich)

\* An exception e leaves the try block: the matching except clause prints
\* its line and main() returns.
Except(e) ==
    /\ raised' = e
    /\ out' = Append(out, handler(e))
    /\ pc' = "done"

\* main.py:118, configure_ai()
ConfigureAI ==
    /\ pc = "configure"
    /\ IF configure_ai(GEMINI_API_KEY) # NoExc
       THEN Except(configure_ai(GEMINI_API_KEY))
       ELSE pc' = "exists" /\ UNCHANGED <<raised, out>>
    /\ UNCHANGED <<GEMINI_API_KEY, file, prs, i, slide_data,
                   consolidated_text, ai_report, fsOps, requests, response>>

\* main.py:37-38, the existence check of extract_data_from_pptx
CheckExists ==
    /\ pc = "exists"
    /\ fsOps' = Append(fsOps, "exists")
    /\ IF ~exists(file)
       THEN Except(Exc("FileNotFoundError", FileNotFoundMsg(pptx_path)))
       ELSE pc' = "open" /\ UNCHANGED <<raised, out>>
    /\ UNCHANGED <<GEMINI_API_KEY, file, prs, i, slide_data,
                   consolidated_text, ai_report, requests, response>>

\* main.py:40-41, Presentation(pptx_path) and the empty dict
OpenDeck ==
    /\ pc = "open"
    /\ fsOps' = Append(fsOps, "open")
    /\ IF Presentation(file).exc # NoExc
       THEN Except(Presentation(file).exc) /\ UNCHANGED prs
       ELSE /\ prs' = Presentation(file).slides
            /\ pc' = "slides"
            /\ UNCHANGED <<raised, out>>
    /\ slide_data' = <<>>
    /\ UNCHANGED <<GEMINI_API_KEY, file, i, consolidated_text, ai_report,
                   requests, response>>

\* main.py:44-64, one iteration of the slide loop
ExtractSlide ==
    /\ pc = "slides"
    /\ i < Len(prs)
    /\ IF slide_exc(prs[i + 1]) # NoExc
       THEN Except(slide_exc(prs[i + 1])) /\ UNCHANGED <<i, slide_data>>
       ELSE /\ slide_data' =
                  dict_set(slide_data, slide_number(i), slide_text(prs[i + 1]))
            /\ i' = i + 1
            /\ UNCHANGED <<pc, raised, out>>
    /\ UNCHANGED <<GEMINI_API_KEY, file, prs, consolidated_text, ai_report,
                   fsOps, requests, response>>

\* main.py:71 and 121-126: the loop is over, slide_data is returned and
\* main() consolidates it
Consolidate ==
    /\ pc = "slides"
    /\ i = Len(prs)
    /\ consolidated_text' = consolidate(slide_data)
    /\ pc' = "analyze"
    /\ UNCHANGED <<GEMINI_API_KEY, file, prs, i, slide_data, ai_report, out,
                   raised, fsOps, requests, response>>

\* main.py:129, analyze_text_with_gemini(consolidated_text); the service
\* answers with one of ServiceOutcomes
Analyze ==
    /\ pc = "analyze"
    /\ requests' = Append(requests, consolidated_text)
    /\ \E outcome \in ServiceOutcomes :
          /\ response' = outcome
          /\ IF analyze_text_with_gemini(outcome).exc # NoExc
             THEN Except(analyze_text_with_gemini(outcome).exc)
                  /\ UNCHANGED ai_report
             ELSE /\ ai_report' = analyze_text_with_gemini(outcome).ret
                  /\ pc' = "report"
                  /\ UNCHANGED <<raised, out>>
    /\ UNCHANGED <<GEMINI_API_KEY, file, prs, i, slide_data,
                   consolidated_text, fsOps>>

\* main.py:131-135, the banner and the report
PrintReport ==
    /\ pc = "report"
    /\ out' = out \o BannerLines \o <<ai_report>>
    /\ pc' = "done"
    /\ UNCHANGED <<GEMINI_API_KEY, file, prs, i, slide_data,
                   consolidated_text, ai_report, raised, fsOps, requests,
                   response>>

Next ==
    \/ ConfigureAI
    \/ CheckExists
    \/ OpenDeck
    \/ ExtractSlide
    \/ Consolidate
    \/ Analyze
    \/ PrintReport

Spec == Init /\ [][Next]_vars

SpecShapes == InitShapes /\ [][Next]_vars

\* ------------------------------------------------------------------------
\* Vocabulary of the properties
\* ------------------------------------------------------------------------
Range(q) == {q[k] : k \in 1..Len(q)}

StartsWith(t, prefix) ==
    Len(t) >= Len(prefix) /\ SubSeq(t, 1, Len(prefix)) = prefix

EndsWith(t, suffix) ==
    Len(t) >= Len(suffix)
    /\ SubSeq(t, Len(t) - Len(suffix) + 1, Len(t)) = suffix

\* The positions at which `sub` occurs in t.
Occurrences(t, sub) ==
    {k \in 1..Len(t) : k + Len(sub) - 1 <= Len(t)
                        /\ SubSeq(t, k, k + Len(sub) - 1) = sub}

Contains(t, sub) == sub = <<>> \/ Occurrences(t, sub) # {}

\* extract_data_from_pptx has returned its map.
ExtractionReturned == pc \in {"analyze", "report", "done"} /\ raised = NoExc

CredentialPresent == GEMINI_API_KEY.set /\ GEMINI_API_KEY.value # <<>>

\* t with its leading and trailing whitespace removed, stated by position:
\* the stretch from the first to the last non-whitespace character.
Trimmed(t) ==
    LET solid == {k \in 1..Len(t) : t[k] \notin Whitespace}
    IN  IF solid = {} THEN <<>>
        ELSE SubSeq(t, CHOOSE a \in solid : \A k \in solid : a <= k,
                       CHOOSE b \in solid : \A k \in solid : b >= k)

\* The text recognised in an image, empty when decoding or recognition
\* fails.
Recognised(blob) ==
    IF blob.decodes /\ blob.recognises THEN Trimmed(blob.text) ELSE <<>>

\* A shape that yields no text at all.
Textless(shape) ==
    /\ shape.has_text_frame => shape.text = <<>>
    /\ shape.has_table =>
          \A r \in 1..Len(shape.table) :
             \A c \in 1..Len(shape.table[r]) : shape.table[r][c] = <<>>
    /\ shape.has_image => Recognised(shape.blob) = <<>>

\* ------------------------------------------------------------------------
\* C1
\* ------------------------------------------------------------------------
\* The k-th item created has key k, and once extraction has returned for
\* a deck of N slides there are exactly N items.
C1_Keys ==
    /\ \A k \in 1..Len(slide_data) : slide_data[k][1] = k
    /\ Len(slide_data) = i
    /\ ExtractionReturned => Len(slide_data) = Len(file.slides)

\* A processed slide whose shapes yield no text has the empty entry.
C1_EmptyEntries ==
    \A k \in 1..Len(slide_data) :
       (\A n \in 1..Len(file.slides[k]) : Textless(file.slides[k][n]))
          => slide_data[k][2] = <<>>

\* A step keeps every existing item as it is, and adds at most the item
\* of the next slide number at the end.
C1_Step ==
    /\ Len(slide_data') >= Len(slide_data)
    /\ Len(slide_data') <= Len(slide_data) + 1
    /\ \A k \in 1..Len(slide_data) : slide_data'[k] = slide_data[k]

\* C1: for every deck that opens with N slides, the map returned by
\* extract_data_from_pptx has exactly the keys 1..N, one item per slide,
\* created in ascending order and never removed or overwritten; a slide
\* that yields no text has the empty string as its entry.
C1_OneEntryPerSlide ==
    /\ [](C1_Keys /\ C1_EmptyEntries)
    /\ [][C1_Step]_vars

\* A two-slide deck, one slide without shapes and one with only an empty
\* text frame, has been extracted to {1: "", 2: ""}.
C1_Witness ==
    /\ pc = "done"
    /\ file.kind = "deck"
    /\ file.slides = << <<>>, <<TextShape(<<>>)>> >>
    /\ slide_data = << <<1, <<>>>>, <<2, <<>>>> >>

\* ------------------------------------------------------------------------
\* C3
\* ------------------------------------------------------------------------
\* The header line of slide n followed by the text of slide n.
C3_Block(n) ==
    <<"-", "-", "-", " ", "S", "l", "i", "d", "e", " ">> \o str(n)
    \o <<" ", "-", "-", "-", "\n">> \o dict_get(slide_data, n)

\* The blocks of slides 1..n, each but the first preceded by a blank line.
RECURSIVE C3_Blocks(_)
C3_Blocks(n) ==
    IF n = 0 THEN <<>>
    ELSE IF n = 1 THEN C3_Block(1)
    ELSE C3_Blocks(n - 1) \o <<"\n", "\n">> \o C3_Block(n)

\* C3: the consolidated text is the blocks of the map's entries in
\* ascending slide-number order, each the header line '--- Slide N ---',
\* a newline and the slide's text, separated by exactly one blank line,
\* with no leading or trailing separator; for {1: "A", 2: "B"} it is
\* '--- Slide 1 ---\nA\n\n--- Slide 2 ---\nB', for the empty map it is
\* the empty string.
C3_Consolidation ==
    ExtractionReturned =>
        /\ dict_keys(slide_data) = 1..Len(slide_data)
        /\ consolidated_text = C3_Blocks(Len(slide_data))
        /\ slide_data = <<>> => consolidated_text = <<>>
        /\ slide_data = << <<1, <<"A">>>>, <<2, <<"B">>>> >> =>
              consolidated_text =
                 <<"-", "-", "-", " ", "S", "l", "i", "d", "e", " ", "1",
                   " ", "-", "-", "-", "\n", "A", "\n", "\n", "-", "-",
                   "-", " ", "S", "l", "i", "d", "e", " ", "2", " ", "-",
                   "-", "-", "\n", "B">>

\* The map {1: "A", 2: "B"} has been consolidated.
C3_Witness ==
    /\ pc = "done"
    /\ slide_data = << <<1, <<"A">>>>, <<2, <<"B">>>> >>
    /\ Len(consolidated_text) = 36
    /\ requests = <<consolidated_text>>

\* ------------------------------------------------------------------------
\* C4
\* ------------------------------------------------------------------------
\* C4: when the input path does not exist, the document is never opened
\* and the inference service is never invoked; once extraction has been
\* entered, the run ends at the existence check with FileNotFoundError.
C4_MissingFile ==
    file.kind = "missing" =>
        /\ "open" \notin Range(fsOps)
        /\ requests = <<>>
        /\ pc \in {"configure", "exists", "done"}
        /\ (pc = "done" /\ CredentialPresent) =>
              /\ raised = Exc("FileNotFoundError", FileNotFoundMsg(pptx_path))
              /\ fsOps = <<"exists">>

\* A run on a missing path has ended with FileNotFoundError.
C4_Witness ==
    /\ pc = "done"
    /\ file.kind = "missing"
    /\ raised.type = "FileNotFoundError"
    /\ fsOps = <<"exists">>

\* ------------------------------------------------------------------------
\* C5
\* ------------------------------------------------------------------------
\* C5: when the credential is absent, the run fails with the
\* configuration error before any work: the input path is never checked
\* or opened, no slide is extracted, the service is never invoked.
C5_MissingCredential ==
    ~GEMINI_API_KEY.set =>
        /\ fsOps = <<>>
        /\ prs = <<>> /\ slide_data = <<>> /\ i = 0
        /\ requests = <<>>
        /\ pc \in {"configure", "done"}
        /\ pc = "done" =>
              /\ raised = Exc("ValueError", KeyNotFoundMsg)
              /\ out = <<ErrorPrefix \o KeyNotFoundMsg>>

\* A run without credential, on a readable two-slide deck, has ended with
\* the configuration error.
C5_Witness ==
    /\ pc = "done"
    /\ ~GEMINI_API_KEY.set
    /\ file.kind = "deck" /\ Len(file.slides) = 2
    /\ raised = Exc("ValueError", KeyNotFoundMsg)

\* ------------------------------------------------------------------------
\* C2
\* ------------------------------------------------------------------------
ImageFails(shape) ==
    shape.has_image /\ ~(shape.blob.decodes /\ shape.blob.recognises)

\* The slide with every failing image replaced by an image that is read
\* without error and carries no text.
C2_Blanked(shapes) ==
    [n \in 1..Len(shapes) |->
        IF ImageFails(shapes[n])
        THEN [shapes[n] EXCEPT !.blob = Blob(TRUE, TRUE, <<>>)]
        ELSE shapes[n]]

\* C2: a failure to decode or recognise an image never leaves
\* extract_text_from_image, which returns the empty string; extraction
\* goes on over the remaining shapes and slides, and the map is the one
\* the deck gives when the failing images carry no text.
C2_ImageFailureContained ==
    /\ raised.type \notin {"UnidentifiedImageError", "TesseractError"}
    /\ \A k \in 1..Len(slide_data) :
          \A n \in 1..Len(file.slides[k]) :
             ImageFails(file.slides[k][n]) =>
                extract_text_from_image(file.slides[k][n].blob)
                   = [exc |-> NoExc, ret |-> <<>>]
    /\ \A k \in 1..Len(slide_data) :
          slide_data[k] = <<k, slide_text(C2_Blanked(file.slides[k]))>>
    /\ (pc = "done" /\ file.kind = "deck" /\ CredentialPresent) =>
          Len(slide_data) = Len(file.slides)

\* A deck whose first slide holds an undecodable image followed by a text
\* shape, and which has a second slide, has been extracted in full.
C2_Witness ==
    /\ pc = "done"
    /\ file.slides = << <<ImageShape(Blob(FALSE, FALSE, <<>>)),
                           TextShape(<<"T">>)>>,
                         <<TextShape(<<"Z">>)>> >>
    /\ slide_data = << <<1, <<"T">>>>, <<2, <<"Z">>>> >>

\* ------------------------------------------------------------------------
\* C6
\* ------------------------------------------------------------------------
\* C6: once extraction has completed, a failure of the inference call is
\* returned by analyze_text_with_gemini as a string that contains the
\* error detail; nothing is raised, and the run ends by printing the
\* banner followed by that string and no error line.
C6_ServiceFailureShielded ==
    (requests # <<>> /\ response.exc # NoExc) =>
        /\ raised = NoExc
        /\ pc \in {"report", "done"}
        /\ ai_report = AiErrorPrefix \o response.exc.msg
        /\ Contains(ai_report, response.exc.msg)
        /\ pc = "done" =>
              /\ out = BannerLines \o <<ai_report>>
              /\ \A k \in 1..Len(out) : ~StartsWith(out[k], <<"[", "!", "]">>)

\* The service refused the request and the run has printed the banner and
\* the analyzer's error string.
C6_Witness ==
    /\ pc = "done"
    /\ response.exc.type = "PermissionDenied"
    /\ Len(out) = 5
    /\ out[5] = AiErrorPrefix \o <<"4", "0", "3">>

\* ------------------------------------------------------------------------
\* C7
\* ------------------------------------------------------------------------
\* C7: when the input file exists but cannot be opened as a deck, the run
\* is aborted by the parser's error after configuration succeeded: no
\* slide map is built or consolidated, the service is never invoked, no
\* banner is printed, and the failure is reported.
C7_UnreadableDeck ==
    file.kind = "corrupt" =>
        /\ pc \in {"configure", "exists", "open", "done"}
        /\ slide_data = <<>> /\ consolidated_text = <<>>
        /\ requests = <<>>
        /\ \A k \in 1..Len(out) : out[k] \notin Range(BannerLines)
        /\ (pc = "done" /\ CredentialPresent) =>
              /\ raised = file.exc
              /\ fsOps = <<"exists", "open">>
              /\ Len(out) = 1
              /\ StartsWith(out[1], <<"[", "!", "]">>)
              /\ EndsWith(out[1], file.exc.msg)
        /\ raised = file.exc => CredentialPresent

\* A run on a file that is no package has ended with the parser's error
\* reported.
C7_Witness ==
    /\ pc = "done"
    /\ file.kind = "corrupt"
    /\ raised.type = "PackageNotFoundError"
    /\ out = <<UnexpectedPrefix \o raised.msg>>

\* ------------------------------------------------------------------------
\* C8
\* ------------------------------------------------------------------------
\* C8: every run ends in exactly one of three reports: the banner and
\* the analysis text on success; the single line '[!] Error: <message>'
\* when, and only when, the failure is a missing input file or a missing
\* credential; '[!] An unexpected error occurred: <message>' for every
\* other failure, a document that cannot be parsed included.
C8_ThreeOutcomes ==
    pc = "done" =>
        LET missing == ~CredentialPresent \/ file.kind = "missing"
        IN  /\ raised = NoExc => out = BannerLines \o <<ai_report>>
            /\ (raised # NoExc /\ missing) =>
                  out = <<ErrorPrefix \o raised.msg>>
            /\ (raised # NoExc /\ ~missing) =>
                  out = <<UnexpectedPrefix \o raised.msg>>

\* ------------------------------------------------------------------------
\* C9
\* ------------------------------------------------------------------------
\* The cells of a rectangular table by position: cell k (from 0) of the
\* row-major order is in row k div columns, column k mod columns.
C9_Cells(table) ==
    IF table = <<>> THEN <<>>
    ELSE LET columns == Len(table[1])
         IN  [k \in 1..(Len(table) * columns) |->
                 table[((k - 1) \div columns) + 1][((k - 1) % columns) + 1]]

\* The fragments of one shape: text frame, then table cells, then the
\* labelled OCR text, each only if the shape has the capability.
C9_Fragments(shape) ==
    (IF shape.has_text_frame THEN <<shape.text>> ELSE <<>>)
    \o (IF shape.has_table THEN C9_Cells(shape.table) ELSE <<>>)
    \o (IF shape.has_image /\ Recognised(shape.blob) # <<>>
        THEN <<OcrLabel \o <<"\n">> \o Recognised(shape.blob)>>
        ELSE <<>>)

\* The fragments of the first n shapes of a slide, in shape order.
RECURSIVE C9_Collected(_, _)
C9_Collected(shapes, n) ==
    IF n = 0 THEN <<>>
    ELSE C9_Collected(shapes, n - 1) \o C9_Fragments(shapes[n])

\* The first n fragments, the empty ones dropped, each non-empty fragment
\* but the first preceded by a newline.
RECURSIVE C9_Joined(_, _)
C9_Joined(fragments, n) ==
    IF n = 0 THEN <<>>
    ELSE LET before == C9_Joined(fragments, n - 1)
         IN  IF fragments[n] = <<>> THEN before
             ELSE IF before = <<>> THEN fragments[n]
             ELSE before \o <<"\n">> \o fragments[n]

C9_Entry(shapes) ==
    LET fragments == C9_Collected(shapes, Len(shapes))
    IN  C9_Joined(fragments, Len(fragments))

\* C9: the entry of every slide is the newline-join of the non-empty
\* fragments collected in shape order, a shape contributing its text
\* frame text, then its table cells in row-major order, then its labelled
\* OCR fragment, for each capability it has; empty fragments add neither
\* text nor separator.
C9_SlideEntry ==
    \A k \in 1..Len(slide_data) :
       slide_data[k][2] = C9_Entry(prs[slide_data[k][1]])

\* A slide of an empty text frame followed by a shape with a text frame,
\* a 2x2 table with an empty cell and an image has been extracted.
C9_Witness ==
    /\ pc = "done"
    /\ Len(prs) >= 1 /\ Len(prs[1]) = 2
    /\ prs[1][1] = TextShape(<<>>)
    /\ prs[1][2].has_text_frame /\ prs[1][2].has_table /\ prs[1][2].has_image
    /\ slide_data[1][2] =
          <<"T", "\n", "a", "\n", "b", "\n", "c", "\n">>
          \o OcrLabel \o <<"\n", "A", "B", "C">>

\* ------------------------------------------------------------------------
\* C10
\* ------------------------------------------------------------------------
\* The images of a slide whose recognised text is not empty.
C10_ReadableImages(shapes) ==
    {n \in 1..Len(shapes) :
        shapes[n].has_image /\ Recognised(shapes[n].blob) # <<>>}

\* C10: an image contributes a fragment exactly when its OCR text is
\* non-empty after trimming, and the fragment is '[OCR Text from Image]:',
\* a newline and the trimmed text; a slide whose only content is an image
\* recognised as "ABC" has the entry '[OCR Text from Image]:\nABC', and
\* one whose only image has no recognisable text has the empty entry.
C10_OcrFragment ==
    \A k \in 1..Len(slide_data) :
       LET shapes == prs[slide_data[k][1]]
           entry == slide_data[k][2]
       IN  /\ Cardinality(Occurrences(entry, OcrLabel))
                = Cardinality(C10_ReadableImages(shapes))
           /\ \A n \in C10_ReadableImages(shapes) :
                 Contains(entry, OcrLabel \o <<"\n">>
                                   \o Recognised(shapes[n].blob))
           /\ (Len(shapes) = 1 /\ shapes[1].has_image
                  /\ ~shapes[1].has_text_frame /\ ~shapes[1].has_table) =>
                 /\ Recognised(shapes[1].blob) = <<>> => entry = <<>>
                 /\ Recognised(shapes[1].blob) # <<>> =>
                       entry = OcrLabel \o <<"\n">>
                                 \o Recognised(shapes[1].blob)
                 /\ shapes[1].blob = Blob(TRUE, TRUE, <<"A", "B", "C">>) =>
                       entry =
                          <<"[", "O", "C", "R", " ", "T", "e", "x", "t",
                            " ", "f", "r", "o", "m", " ", "I", "m", "a",
                            "g", "e", "]", ":", "\n", "A", "B", "C">>

\* A slide whose only shape is an image recognised as " ABC\n" has the
\* labelled, trimmed entry.
C10_Witness ==
    /\ pc = "done"
    /\ Len(prs) >= 1
    /\ prs[1] = <<ImageShape(Blob(TRUE, TRUE, <<" ", "A", "B", "C", "\n">>))>>
    /\ slide_data[1][2] = OcrLabel \o <<"\n", "A", "B", "C">>

====
